---- MODULE Spec2Model ----
(***************************************************************************)
(* Double pendulum: the equations of motion (deriv), the one-step RK4      *)
(* integrator (DoublePendulumSystem::step) and the caller loop of main.rs  *)
(* (update / ui_event on Model).                                           *)
(*                                                                         *)
(* f64 values are modelled as decimal fixed-point numbers: the integer v   *)
(* stands for v / SCALE.  A value that is NaN or +-Inf in f64 is the one   *)
(* value NF; every operation with an NF operand yields NF, and a division  *)
(* by zero yields NF (0/0 = NaN, x/0 = +-Inf).  With finite parameters no  *)
(* f64 operation of the program maps a non-finite operand to a finite      *)
(* result (nothing is ever divided by an infinity), so NF is absorbing.    *)
(***************************************************************************)
EXTENDS Integers, Sequences, FiniteSets

----------------------------------------------------------------------------
(* f64 arithmetic *)

\* One unit of the fixed-point representation: 1.0 is SCALE.
SCALE == 100000

\* NaN or +-Inf.
NF == 2147483647

IsFinite(a) == a # NF

Abs(a) == IF a < 0 THEN -a ELSE a

Sgn(a) == IF a < 0 THEN -1 ELSE 1

\* The literal n. (an integer-valued f64 literal such as 2. or 6.0).
Lit(n) == n * SCALE

FNeg(a) == IF a = NF THEN NF ELSE -a

FAdd(a, b) == IF a = NF \/ b = NF THEN NF ELSE a + b

FSub(a, b) == IF a = NF \/ b = NF THEN NF ELSE a - b

\* |a| * |b| / SCALE, truncated, computed in pieces that fit a machine word.
MulMag(a, b) ==
    LET ah == a \div SCALE
        al == a % SCALE
        bh == b \div SCALE
        bl == b % SCALE
        blh == bl \div 100
        bll == bl % 100
    IN  ah * bh * SCALE + ah * bl + al * bh
          + ((al * blh + ((al * bll) \div 100)) \div 1000)

FMul(a, b) ==
    IF a = NF \/ b = NF THEN NF ELSE Sgn(a) * Sgn(b) * MulMag(Abs(a), Abs(b))

\* The decimal digits of r / b after the point, one digit per round.
RECURSIVE FracDigits(_, _, _, _)
FracDigits(r, b, acc, n) ==
    IF n = 0 THEN acc
    ELSE FracDigits((r * 10) % b, b, acc * 10 + ((r * 10) \div b), n - 1)

\* Number of decimal digits of SCALE.
SCALE_DIGITS == 5

\* |a| / |b| * SCALE, truncated, by long division.
DivMag(a, b) == (a \div b) * SCALE + FracDigits(a % b, b, 0, SCALE_DIGITS)

FDiv(a, b) ==
    IF a = NF \/ b = NF \/ b = 0 THEN NF
    ELSE Sgn(a) * Sgn(b) * DivMag(Abs(a), Abs(b))

\* pi/2.
PIO2 == 157080

\* sin on the reduced argument |r| <= pi/4.
KSin(r) ==
    LET r2 == MulMag(Abs(r), Abs(r))
        p3 == SCALE - MulMag(r2, SCALE) \div 42
        p2 == SCALE - MulMag(r2, p3) \div 20
        p1 == SCALE - MulMag(r2, p2) \div 6
    IN  Sgn(r) * MulMag(Abs(r), p1)

\* cos on the reduced argument |r| <= pi/4.
KCos(r) ==
    LET r2 == MulMag(Abs(r), Abs(r))
        p4 == SCALE - MulMag(r2, SCALE) \div 56
        p3 == SCALE - MulMag(r2, p4) \div 30
        p2 == SCALE - MulMag(r2, p3) \div 12
        p1 == MulMag(r2, p2) \div 2
    IN  SCALE - p1

\* sin of a non-negative argument: reduce by multiples of pi/2, then the kernel
\* of the quadrant.
SinPos(x) ==
    LET n == (x + PIO2 \div 2) \div PIO2
        r == x - n * PIO2
        q == n % 4
    IN  CASE q = 0 -> KSin(r)
          [] q = 1 -> KCos(r)
          [] q = 2 -> -KSin(r)
          [] OTHER -> -KCos(r)

\* cos of a non-negative argument.
CosPos(x) ==
    LET n == (x + PIO2 \div 2) \div PIO2
        r == x - n * PIO2
        q == n % 4
    IN  CASE q = 0 -> KCos(r)
          [] q = 1 -> -KSin(r)
          [] q = 2 -> -KCos(r)
          [] OTHER -> KSin(r)

\* A slip: cos written for sin.
FSin_as_cos(a) == IF a = NF THEN NF ELSE CosPos(Abs(a))

\* f64::sin
FSin(a) == IF a = NF THEN NF ELSE IF a < 0 THEN -SinPos(-a) ELSE SinPos(a)

\* f64::cos
FCos(a) == IF a = NF THEN NF ELSE CosPos(Abs(a))

----------------------------------------------------------------------------
(* The program's state *)

VARIABLES
    system,  \* Model.system: the five Dynamics parameters
    state,   \* Model.state: th1, th2, w1, w2
    solver,  \* the solver of the last call of DoublePendulumSystem::step
    pc,      \* "running", or "aborted" once a panic has unwound the process
    trace,   \* the calls of DoublePendulumSystem::step so far, in order
    events,  \* the number of control events (ui_event, field writes) so far
    dy       \* the last direct evaluation of System::system (none: <<>>)

vars == <<system, state, solver, pc, trace, events, dy>>

----------------------------------------------------------------------------
(* dbl_pendulum.rs *)

\* DoublePendulumState::new
DoublePendulumState_new(th1, th2, w1, w2) ==
    [th1 |-> th1, th2 |-> th2, w1 |-> w1, w2 |-> w2]

\* DoublePendulumState::as_mat: the vector [th1, th2, w1, w2].
as_mat(st) == <<st.th1, st.th2, st.w1, st.w2>>

G_EARTH == 980665

\* Default for DoublePendulumSystem
DoublePendulumSystem_default ==
    [g |-> G_EARTH, m1 |-> Lit(1), m2 |-> Lit(1), l1 |-> Lit(1), l2 |-> Lit(1)]

\* A slip: the factor 2 of m1 is dropped.
denom_factor_m1(th1, th2, m1, m2) ==
    LET tdc == FCos(FMul(Lit(2), FSub(th1, th2)))
    IN  FSub(FAdd(m1, m2), FMul(m2, tdc))

\* A slip: m1 written for m2 in the cosine term.
denom_factor_typo(th1, th2, m1, m2) ==
    LET tdc == FCos(FMul(Lit(2), FSub(th1, th2)))
    IN  FSub(FAdd(FMul(Lit(2), m1), m2), FMul(m1, tdc))

\* The factor 2*m1 + m2 - m2*cos(2*(th1 - th2)) of both denominators of deriv.
denom_factor(th1, th2, m1, m2) ==
    LET tdc == FCos(FMul(Lit(2), FSub(th1, th2)))
    IN  FSub(FAdd(FMul(Lit(2), m1), m2), FMul(m2, tdc))

\* A slip: g written for -g in the first term of w1'.
deriv_sign(th1, th2, w1, w2, g, m1, m2, l1, l2) ==
    LET dc == FCos(FSub(th1, th2))
        ds == FSin(FSub(th1, th2))
        num1 ==
            FSub(FSub(FMul(FMul(g, FAdd(FMul(Lit(2), m1), m2)), FSin(th1)),
                      FMul(FMul(m2, g), FSin(FSub(th1, FMul(Lit(2), th2))))),
                 FMul(FMul(FMul(Lit(2), ds), m2),
                      FAdd(FMul(FMul(w2, w2), l2),
                           FMul(FMul(FMul(w1, w1), l1), dc))))
        denom1 == FMul(l1, denom_factor(th1, th2, m1, m2))
        wp1 == FDiv(num1, denom1)
        num2 ==
            FMul(FMul(Lit(2), ds),
                 FAdd(FAdd(FMul(FMul(FMul(w1, w1), l1), FAdd(m1, m2)),
                           FMul(FMul(g, FAdd(m1, m2)), FCos(th1))),
                      FMul(FMul(FMul(FMul(w2, w2), l2), m2), dc)))
        denom2 == FMul(l2, denom_factor(th1, th2, m1, m2))
        wp2 == FDiv(num2, denom2)
    IN  <<w1, w2, wp1, wp2>>

\* deriv: <<th1', th2', w1', w2'>>.
deriv(th1, th2, w1, w2, g, m1, m2, l1, l2) ==
    LET dc == FCos(FSub(th1, th2))
        ds == FSin(FSub(th1, th2))
        num1 ==
            FSub(FSub(FMul(FMul(FNeg(g), FAdd(FMul(Lit(2), m1), m2)), FSin(th1)),
                      FMul(FMul(m2, g), FSin(FSub(th1, FMul(Lit(2), th2))))),
                 FMul(FMul(FMul(Lit(2), ds), m2),
                      FAdd(FMul(FMul(w2, w2), l2),
                           FMul(FMul(FMul(w1, w1), l1), dc))))
        denom1 == FMul(l1, denom_factor(th1, th2, m1, m2))
        wp1 == FDiv(num1, denom1)
        num2 ==
            FMul(FMul(Lit(2), ds),
                 FAdd(FAdd(FMul(FMul(FMul(w1, w1), l1), FAdd(m1, m2)),
                           FMul(FMul(g, FAdd(m1, m2)), FCos(th1))),
                      FMul(FMul(FMul(FMul(w2, w2), l2), m2), dc)))
        denom2 == FMul(l2, denom_factor(th1, th2, m1, m2))
        wp2 == FDiv(num2, denom2)
    IN  <<w1, w2, wp1, wp2>>

\* System::system for &DoublePendulumSystem: dy for the vector y.
system_fn(self, t, y) ==
    deriv(y[1], y[2], y[3], y[4], self.g, self.m1, self.m2, self.l1, self.l2)

----------------------------------------------------------------------------
(* The fixed-step solver the integrator drives: Rk4::new, Rk4::integrate *)

VAdd(u, v) == [i \in 1..4 |-> FAdd(u[i], v[i])]

VScale(u, c) == [i \in 1..4 |-> FMul(u[i], c)]

\* Rk4::new(f, x, y, x_end, step_size)
Rk4_new(f, x, y, x_end, step_size) ==
    [f |-> f, x |-> x, y |-> y, x_end |-> x_end, step_size |-> step_size,
     half_step |-> FDiv(step_size, Lit(2)),
     x_out |-> <<>>, y_out |-> <<>>, evals |-> <<>>]

\* A slip: the system is evaluated with the default parameters, not self's.
Eval_default(f, t, y) ==
    [f |-> DoublePendulumSystem_default, t |-> t, y |-> y,
     dy |-> system_fn(DoublePendulumSystem_default, t, y)]

\* One evaluation of the system as the solver records it.
Eval(f, t, y) == [f |-> f, t |-> t, y |-> y, dy |-> system_fn(f, t, y)]

\* Rk4::step, its evaluations: stage n is evaluated at the point the stage
\* before it leads to (k1 at y; k2, k3 half a step along k1, k2; k4 a whole
\* step along k3).
RECURSIVE Rk4_stages(_, _)
Rk4_stages(s, n) ==
    IF n = 0 THEN <<>>
    ELSE LET k == Rk4_stages(s, n - 1)
             c == IF n = 1 THEN Lit(0) ELSE IF n = 4 THEN s.step_size ELSE s.half_step
         IN  Append(k, Eval(s.f, FAdd(s.x, c),
                            IF n = 1 THEN s.y
                            ELSE VAdd(s.y, VScale(k[n - 1].dy, c))))

\* Rk4::step, the new point from the four evaluations k.
Rk4_point(s, k) ==
    LET sum == VAdd(VAdd(VAdd(k[1].dy, VScale(k[2].dy, Lit(2))),
                         VScale(k[3].dy, Lit(2))), k[4].dy)
    IN  [x_new |-> FAdd(s.x, s.step_size),
         y_new |-> VAdd(s.y, VScale(sum, FDiv(s.step_size, Lit(6)))),
         evals |-> k]

\* Rk4::step: the four evaluations and the new point.
Rk4_step(s) == Rk4_point(s, Rk4_stages(s, 4))

\* f64::ceil followed by `as usize`: NaN and negative values give 0.
ceil_as_usize(v) ==
    IF v = NF \/ v <= 0 THEN 0 ELSE (v + SCALE - 1) \div SCALE

\* The loop of Rk4::integrate, its body: the point r is made current and pushed.
Rk4_push(s, r) ==
    [s EXCEPT !.x = r.x_new, !.y = r.y_new,
              !.x_out = Append(@, r.x_new),
              !.y_out = Append(@, r.y_new),
              !.evals = @ \o r.evals]

\* The loop of Rk4::integrate: n more steps.
RECURSIVE Rk4_loop(_, _)
Rk4_loop(s, n) ==
    IF n = 0 THEN s ELSE Rk4_loop(Rk4_push(s, Rk4_step(s)), n - 1)

\* Rk4::integrate: the initial point, then ceil((x_end - x) / step_size) steps.
Rk4_integrate(s) ==
    LET num_steps == ceil_as_usize(FDiv(FSub(s.x_end, s.x), s.step_size))
    IN  Rk4_loop([s EXCEPT !.x_out = <<s.x>>, !.y_out = <<s.y>>], num_steps)

\* A slip: the step is split in two halves.
step_solver_halved(self, st, delta) ==
    Rk4_integrate(Rk4_new(self, Lit(0), as_mat(st), delta, FDiv(delta, Lit(2))))

\* A slip: the solver of the call before is kept and run on from where it ended.
step_solver_kept(self, st, delta) ==
    Rk4_integrate(Rk4_new(self, solver.x, as_mat(st), delta, delta))

\* DoublePendulumSystem::step, the solver it builds and runs.
step_solver(self, st, delta) ==
    Rk4_integrate(Rk4_new(self, Lit(0), as_mat(st), delta, delta))

\* DoublePendulumSystem::step, the state it reads off the solver's output.
step_out(s) ==
    LET out == s.y_out[Len(s.y_out)]
    IN  [th1 |-> out[1], th2 |-> out[2], w1 |-> out[3], w2 |-> out[4]]

\* DoublePendulumSystem::step
step(self, st, delta) == step_out(step_solver(self, st, delta))

----------------------------------------------------------------------------
(* main.rs: the Model, the update loop and the control panel *)

\* Ticks (update events) explored.
MaxTicks == 2

\* Control events explored.
MaxEvents == 1

\* update.since_last.as_secs_f64(): 0.01 s and 0.016 s (a 60 Hz frame).
Dts == {1000, 1600}

\* No solver has been built yet.
NoSolver == [Rk4_new(DoublePendulumSystem_default, 0, <<0, 0, 0, 0>>, 0, 0)
                EXCEPT !.f = <<>>]

\* A slip: the result of integrate is dropped instead of unwrapped.
unwrap_ignored(result) == FALSE

\* Result<Stats, IntegrationError>::unwrap panics on Err.
unwrap_panics(result) == result # "Ok"

\* A slip: step is called and its result is not stored.
Model_step_dropped(t, result) ==
    /\ solver' = step_solver(system, state, t)
    /\ pc' = IF unwrap_panics(result) THEN "aborted" ELSE pc
    /\ state' = state
    /\ trace' = Append(trace, [f |-> system, st |-> state, dt |-> t,
                               res |-> result,
                               out |-> IF unwrap_panics(result) THEN state
                                       ELSE step_out(solver')])
    /\ UNCHANGED <<system, events, dy>>

\* Model::step(t); result is what solver.integrate() returned.
Model_step(t, result) ==
    /\ solver' = step_solver(system, state, t)
    /\ pc' = IF unwrap_panics(result) THEN "aborted" ELSE pc
    /\ state' = IF unwrap_panics(result) THEN state ELSE step_out(solver')
    /\ trace' = Append(trace, [f |-> system, st |-> state, dt |-> t,
                               res |-> result, out |-> state'])
    /\ UNCHANGED <<system, events, dy>>

\* update: one tick.  Rk4::integrate has no failing path, so it returns Ok.
update(since_last) ==
    /\ pc = "running"
    /\ Len(trace) < MaxTicks
    /\ Model_step(since_last, "Ok")

\* The mouse is not on the slider.
NoMouse == -1

\* Where on a slider the pressed mouse is, as a fraction of its length.
Percs == {0, 50000, 100000}

\* p to the power n, n a whole number.
RECURSIVE FPow(_, _)
FPow(p, n) == IF n = 0 THEN Lit(1) ELSE FMul(p, FPow(p, n - 1))

\* A slip: the slider's value is taken from 0, not from min.
Slider_from_zero(value, min, max, skew, mouse) ==
    IF mouse = NoMouse THEN value
    ELSE FMul(max, FPow(mouse, skew))

\* widget::Slider::new(value, min, max).skew(skew).set(..): the value the slider
\* holds after the event; it is the old one when the mouse is elsewhere.
Slider(value, min, max, skew, mouse) ==
    IF mouse = NoMouse THEN value
    ELSE FAdd(min, FMul(FSub(max, min), FPow(mouse, skew)))

\* The five sliders in the order ui_event sets them.
Ids == {"g", "m1", "l1", "m2", "l2"}

\* ui_event with the mouse pressed on slider id at perc (on no slider: id "").
ui_event(id, perc) ==
    LET at(w) == IF w = id THEN perc ELSE NoMouse
        g  == Slider(system.g, 0, 2000000, 1, at("g"))
        m1 == Slider(system.m1, 10000, 10000000, 8, at("m1"))
        l1 == Slider(system.l1, 50000, 500000, 1, at("l1"))
        m2 == Slider(system.m2, 10000, 10000000, 10, at("m2"))
        l2 == Slider(system.l2, 50000, 500000, 1, at("l2"))
    IN  /\ pc = "running"
        /\ events < MaxEvents
        /\ events' = events + 1
        /\ system' = [g |-> g, m1 |-> m1, m2 |-> m2, l1 |-> l1, l2 |-> l2]
        /\ UNCHANGED <<state, solver, pc, trace, dy>>

\* model(): the default Dynamics and the state (2, 2, 0, 0).
Init ==
    /\ system = DoublePendulumSystem_default
    /\ state = DoublePendulumState_new(Lit(2), Lit(2), Lit(0), Lit(0))
    /\ solver = NoSolver
    /\ pc = "running"
    /\ trace = <<>>
    /\ events = 0
    /\ dy = <<>>

Next ==
    \/ \E since_last \in Dts : update(since_last)
    \/ \E id \in Ids \cup {""}, perc \in Percs : ui_event(id, perc)

\* The application: nannou::app(model).update(update).run().
Spec == Init /\ [][Next]_vars

----------------------------------------------------------------------------
(* The core on its own: the interface of section 6, driven by any caller *)

\* Values a caller writes into the public fields of DoublePendulumSystem.
CoreWrites ==
    { [field |-> "l2", v |-> 0], [field |-> "l2", v |-> Lit(1)],
      [field |-> "m2", v |-> 0], [field |-> "g", v |-> 0] }

\* States a caller constructs with DoublePendulumState::new.
CoreStates ==
    { DoublePendulumState_new(0, 0, 0, 0),
      DoublePendulumState_new(Lit(2), Lit(2), 0, 0),
      DoublePendulumState_new(Lit(2), Lit(1), 50000, -30000) }

\* Dynamics a caller constructs.
CoreSystems ==
    { DoublePendulumSystem_default,
      [DoublePendulumSystem_default EXCEPT !.l1 = 0],
      [g |-> G_EARTH, m1 |-> 10000, m2 |-> Lit(2), l1 |-> 50000, l2 |-> Lit(1)] }

\* Step sizes a caller passes: 0 s, 0.01 s, 0.05 s.
CoreDts == {0, 1000, 5000}

\* What Rk4::integrate may return by its type, Result<Stats, IntegrationError>.
Results == {"Ok", "Err"}

\* A tick of a caller that keeps its State as Model does.
core_update(t, result) ==
    /\ pc = "running"
    /\ Len(trace) < MaxTicks
    /\ Model_step(t, result)

\* A direct write of one public field of the Dynamics.
assign(field, v) ==
    /\ pc = "running"
    /\ events < MaxEvents
    /\ events' = events + 1
    /\ system' = [system EXCEPT ![field] = v]
    /\ UNCHANGED <<state, solver, pc, trace, dy>>

\* The caller replaces its State by a freshly constructed one.
construct(st) ==
    /\ pc = "running"
    /\ events < MaxEvents
    /\ events' = events + 1
    /\ state' = st
    /\ UNCHANGED <<system, solver, pc, trace, dy>>

InitCore ==
    /\ system \in CoreSystems
    /\ state \in CoreStates
    /\ solver = NoSolver
    /\ pc = "running"
    /\ trace = <<>>
    /\ events = 0
    /\ dy = <<>>

NextCore ==
    \/ \E t \in CoreDts, result \in Results : core_update(t, result)
    \/ \E w \in CoreWrites : assign(w.field, w.v)
    \/ \E st \in CoreStates : construct(st)

SpecCore == InitCore /\ [][NextCore]_vars

----------------------------------------------------------------------------
(* deriv on its own: one evaluation of System::system on drawn inputs *)

DerivAngles1 == {0, 78540, PIO2, Lit(2), -100000}

DerivAngles2 == {0, 78540, Lit(1), Lit(2)}

DerivVelocities == {0, 50000, -30000}

DerivGravities == {0, G_EARTH}

DerivMasses == {-100000, 0, 10000, 100000}

DerivLengths == {0, 50000, 100000}

\* System::system(t, y, dy) on the current state and parameters.
call_system ==
    /\ dy = <<>>
    /\ dy' = <<Eval(system, Lit(0), as_mat(state))>>
    /\ UNCHANGED <<system, state, solver, pc, trace, events>>

InitDeriv ==
    /\ system \in [g : DerivGravities, m1 : DerivMasses, m2 : DerivMasses,
                   l1 : DerivLengths, l2 : DerivLengths]
    /\ state \in [th1 : DerivAngles1, th2 : DerivAngles2,
                  w1 : DerivVelocities, w2 : DerivVelocities]
    /\ solver = NoSolver
    /\ pc = "running"
    /\ trace = <<>>
    /\ events = 0
    /\ dy = <<>>

NextDeriv == call_system

SpecDeriv == InitDeriv /\ [][NextDeriv]_vars

----------------------------------------------------------------------------
(* Properties *)

\* The last call of step.
LastCall == trace[Len(trace)]

\* The vector v as a State.
StateOf(v) == [th1 |-> v[1], th2 |-> v[2], w1 |-> v[3], w2 |-> v[4]]

\* Some component of the State is NaN or +-Inf.
HasNF(st) == st.th1 = NF \/ st.th2 = NF \/ st.w1 = NF \/ st.w2 = NF

\* One classical RK4 step of size h from st, as a State.
RK4Single(f, st, h) ==
    StateOf(Rk4_step(Rk4_new(f, Lit(0), as_mat(st), h, h)).y_new)

\* The evaluation e of the system divides by zero.
DividesByZero(e) ==
    LET fac == denom_factor(e.y[1], e.y[2], e.f.m1, e.f.m2)
    IN  FMul(e.f.l1, fac) = 0 \/ FMul(e.f.l2, fac) = 0

C2_TickReplacesState ==
    [][/\ Len(trace') \in {Len(trace), Len(trace) + 1}
       /\ Len(trace') = Len(trace) + 1 =>
             LET c == trace'[Len(trace')]
             IN  /\ SubSeq(trace', 1, Len(trace)) = trace
                 /\ c.st = state
                 /\ c.f = system
                 /\ c.dt \in Dts
                 /\ c.out = step(system, state, c.dt)
                 /\ state' = c.out
       /\ Len(trace') = Len(trace) => state' = state /\ trace' = trace
       /\ events' # events => state' = state /\ trace' = trace]_vars

\* Two ticks with a slider change between them: the second tick started from
\* what the first stored.
C2_Witness ==
    /\ Len(trace) = 2
    /\ events = 1
    /\ trace[1].f # trace[2].f
    /\ trace[2].st = trace[1].out
    /\ state = trace[2].out
    /\ state # trace[2].st

\* C3: a call of step leaves the five parameters as they were, and each of its
\* evaluations of the system reads these same parameters.
C3_ParametersReadOnly ==
    [][Len(trace') = Len(trace) + 1 =>
          /\ system' = system
          /\ solver'.f = system
          /\ Len(solver'.evals) = 4
          /\ \A i \in DOMAIN solver'.evals : solver'.evals[i].f = system]_vars

\* A step was taken with parameters a slider had changed.
C3_Witness ==
    /\ trace # <<>>
    /\ system # DoublePendulumSystem_default
    /\ LastCall.f = system
    /\ Len(solver.evals) = 4
    /\ state # LastCall.st

\* A mass or a length of the Dynamics is zero or negative.
Invalid(f) == f.m1 <= 0 \/ f.m2 <= 0 \/ f.l1 <= 0 \/ f.l2 <= 0

\* A failed solve aborts the process with the stored State as it was, no call
\* follows it, and a call that returned stored its result.
AbortsOnFailure ==
    /\ \A i \in DOMAIN trace : i < Len(trace) => trace[i].res = "Ok"
    /\ pc = "aborted" <=> (trace # <<>> /\ LastCall.res = "Err")
    /\ pc = "aborted" => state = LastCall.st
    /\ \A i \in DOMAIN trace :
          /\ trace[i].res = "Ok" /\ i < Len(trace) => trace[i + 1].st \in CoreStates \cup {trace[i].out}
          /\ trace[i].res = "Err" => trace[i].out = trace[i].st

Rest == DoublePendulumState_new(0, 0, 0, 0)

\* C6: with parameters whose denominators at rest are not zero, deriv at
\* th1 = th2 = 0, w1 = w2 = 0 is zero in all four components, and a step of any
\* size from rest returns rest.
C6_RestIsFixedPoint ==
    trace # <<>> /\ LastCall.st = Rest
                 /\ ~DividesByZero(Eval(LastCall.f, 0, as_mat(Rest))) =>
        /\ system_fn(LastCall.f, 0, as_mat(Rest)) = <<0, 0, 0, 0>>
        /\ \A i \in DOMAIN solver.evals : solver.evals[i].dy = <<0, 0, 0, 0>>
        /\ LastCall.out = Rest

\* A step of 0.05 s was taken from rest with parameters other than the default.
C6_Witness ==
    /\ trace # <<>>
    /\ LastCall.st = Rest
    /\ LastCall.res = "Ok"
    /\ LastCall.dt = 5000
    /\ LastCall.f.m1 = 10000
    /\ LastCall.f.g # 0
    /\ Len(solver.evals) = 4
    /\ state = Rest

\* The single pendulum's acceleration -(g / l1) * sin(th1).
SinglePendulum(g, l1, th1) == FNeg(FMul(FDiv(g, l1), FSin(th1)))

\* Rounding tolerance of the comparison with the single-pendulum formula, in
\* units of 1 / SCALE.
Tolerance == 20

\* w1' of the last evaluation is the single-pendulum value, within Tolerance.
ReducesToSinglePendulum ==
    /\ dy[1].dy[3] # NF
    /\ Abs(dy[1].dy[3] - SinglePendulum(system.g, system.l1, state.th1)) <= Tolerance

\* C7 as claimed: with m2 = 0 or with l2 = 0, and m1, l1 positive (and m2 not
\* negative), w1' is -(g / l1) * sin(th1) within rounding.
C7_Original ==
    dy # <<>> /\ (system.m2 = 0 \/ system.l2 = 0) /\ system.m2 >= 0
              /\ system.m1 > 0 /\ system.l1 > 0 => ReducesToSinglePendulum

\* C7 as amended: with m2 = 0, and m1, l1 positive, w1' is -(g / l1) * sin(th1)
\* within rounding, whatever th2, w1 and w2 are.
C7_SinglePendulumReduction ==
    dy # <<>> /\ system.m2 = 0 /\ system.m1 > 0 /\ system.l1 > 0 =>
        /\ ReducesToSinglePendulum
        /\ dy[1].dy[3] = deriv(state.th1, 0, 0, 0, system.g, system.m1, system.m2,
                               system.l1, Lit(1))[3]

\* deriv was evaluated with m2 = 0 at a State whose th2, w1 and w2 are not 0.
C7_Witness ==
    /\ dy # <<>>
    /\ system.m2 = 0
    /\ system.m1 = Lit(1)
    /\ system.l1 = 50000
    /\ system.g = G_EARTH
    /\ state.th1 = Lit(2)
    /\ state.th2 = Lit(1)
    /\ state.w1 # 0
    /\ state.w2 # 0
    /\ dy[1].dy[3] < 0

\* The first call of step was made with the default Dynamics, the State
\* (2, 2, 0, 0) and dt = 0.01.
ExampleScenario ==
    /\ trace # <<>>
    /\ trace[1].f = DoublePendulumSystem_default
    /\ trace[1].st = DoublePendulumState_new(Lit(2), Lit(2), 0, 0)
    /\ trace[1].dt = 1000

\* C8 as claimed: in the example scenario w1' and w2' are negative, and the
\* step lowers th1 and th2 and returns w1 and w2 that are finite and not 0.
C8_Original ==
    ExampleScenario =>
        LET d == system_fn(trace[1].f, 0, as_mat(trace[1].st))
            out == trace[1].out
        IN  /\ d[3] < 0 /\ d[4] < 0
            /\ out.th1 < trace[1].st.th1 /\ out.th2 < trace[1].st.th2
            /\ ~HasNF(out) /\ out.w1 # 0 /\ out.w2 # 0

\* C8 as amended: in the example scenario w1' is negative and w2' is zero, and
\* the step lowers th1, does not lower th2, and returns w1 and w2 that are
\* finite and not 0.
C8_ExampleScenario ==
    ExampleScenario =>
        LET d == system_fn(trace[1].f, 0, as_mat(trace[1].st))
            out == trace[1].out
        IN  /\ d[3] < 0 /\ d[4] = 0
            /\ out.th1 < trace[1].st.th1 /\ out.th2 >= trace[1].st.th2
            /\ ~HasNF(out) /\ out.w1 # 0 /\ out.w2 # 0

\* The example's step has been taken and its result stored.
C8_Witness ==
    /\ ExampleScenario
    /\ Len(trace) = 1
    /\ state = trace[1].out
    /\ state.w1 < 0

InSliderRanges(f) ==
    /\ 0 <= f.g /\ f.g <= 2000000
    /\ 10000 <= f.m1 /\ f.m1 <= 10000000
    /\ 10000 <= f.m2 /\ f.m2 <= 10000000
    /\ 50000 <= f.l1 /\ f.l1 <= 500000
    /\ 50000 <= f.l2 /\ f.l2 <= 500000

\* C10: in the application the parameters stay inside the sliders' ranges, so
\* masses and lengths are positive, and no evaluation of a step divides by zero.
C10_ParametersInRange ==
    /\ InSliderRanges(system)
    /\ system.m1 > 0 /\ system.m2 > 0 /\ system.l1 > 0 /\ system.l2 > 0
    /\ \A i \in DOMAIN trace : InSliderRanges(trace[i].f)
    /\ \A i \in DOMAIN solver.evals :
          /\ ~DividesByZero(solver.evals[i])
          /\ solver.evals[i].dy[3] # NF
          /\ solver.evals[i].dy[4] # NF

\* A step was taken with the first mass at the low end of its slider.
C10_Witness ==
    /\ trace # <<>>
    /\ system.m1 = 10000
    /\ LastCall.f = system
    /\ Len(solver.evals) = 4
    /\ ~HasNF(state)

====
